---- MODULE Spec2Model ----
(***************************************************************************)
(* Model of the three tutorial notebooks of the repository:                *)
(*   "sum"  T5 summarization      (SUMMARIZATION.ipynb, lines 1-482)       *)
(*   "bge"  BGE embeddings        (SUMMARIZATION.ipynb, lines 484-898)     *)
(*   "jp"   Japanese sentence-BERT embeddings (unnamed/part_000)           *)
(* A notebook is a list of statements grouped in code cells.  A run        *)
(* executes the statements top to bottom; a statement that raises aborts   *)
(* its cell and the run.  Local files and the database outlive a run.      *)
(***************************************************************************)
EXTENDS Integers, Sequences, FiniteSets, TLC

\* Number of rows of the source table (emails.emails / emails.emails_jp)
\* that are followed one by one; their ids are 1 .. NumRows.
NumRows == 5
\* Number of top-to-bottom runs of the notebook in one behaviour.
MaxRuns == 2
\* Longest list of graph outputs given to the fix cell.
MaxOutputs == 3

Notebooks == {"sum", "bge", "jp"}

\* The texts of the source rows, by their token counts (shorter and longer
\* than the tokenizer's maximum): all of one length, or short and long in turn.
EmailTables ==
  {[i \in 1..NumRows |-> t] : t \in {3, 700}}
    \cup {[i \in 1..NumRows |-> IF i % 2 = 1 THEN 3 ELSE 700]}

\* Number of rows of the source table: the rows followed one by one and no
\* other, or one row more than "select top 100" returns.
TableSizes == {NumRows, 101}

St(cell, line, op, a) == [cell |-> cell, line |-> line, op |-> op, off |-> FALSE, a |-> a]
\* A statement that is present in the cell as a comment.
Off(cell, line, op, a) == [cell |-> cell, line |-> line, op |-> op, off |-> TRUE, a |-> a]
NoArgs == [none |-> TRUE]

(***************************************************************************)
(* SQL texts of the notebooks.                                             *)
(***************************************************************************)
\* Variant: the view passes the generation parameters of the local test.
sql_v_emails_tokenized_as_tested ==
  [kind |-> "replace_view", name |-> "v_emails_tokenized",
   fn |-> "tokenizer_encode",
   on |-> "emails.emails", onsel |-> <<>>, top |-> 0,
   dims |-> << [table |-> "summarization_tokenizers", filter |-> ""] >>,
   preserve |-> {"id", "txt"},
   outfields |-> {"IDS", "ATTENTION_MASK"},
   maxlen |-> 512, pad |-> TRUE, dtype |-> "INT32",
   select |-> << <<"id", "id">>, <<"txt", "txt">>, <<"IDS", "input_ids">>,
                 <<"attention_mask", "attention_mask">> >>,
   params |-> [max_length |-> 100, min_length |-> 10, num_beams |-> 4,
               num_return_sequences |-> 1, repetition_penalty |-> 2,
               length_penalty |-> 0]]

sql_v_emails_tokenized ==
  [kind |-> "replace_view", name |-> "v_emails_tokenized",
   fn |-> "tokenizer_encode",
   on |-> "emails.emails", onsel |-> <<>>, top |-> 0,
   dims |-> << [table |-> "summarization_tokenizers", filter |-> ""] >>,
   preserve |-> {"id", "txt"},
   outfields |-> {"IDS", "ATTENTION_MASK"},
   maxlen |-> 512, pad |-> TRUE, dtype |-> "INT32",
   select |-> << <<"id", "id">>, <<"txt", "txt">>, <<"IDS", "input_ids">>,
                 <<"attention_mask", "attention_mask">> >>,
   params |-> [max_length |-> 50, min_length |-> 10, num_beams |-> 4,
               num_return_sequences |-> 1, repetition_penalty |-> 1,
               length_penalty |-> 2]]

sql_v_emails_encoded ==
  [kind |-> "replace_view", name |-> "v_emails_encoded",
   fn |-> "IVSM_score",
   on |-> "v_emails_tokenized", onsel |-> <<>>, top |-> 0,
   dims |-> << [table |-> "summarization_models", filter |-> ""] >>,
   preserve |-> {"id", "txt"},
   infields |-> {"input_ids", "attention_mask"},
   outfields |-> {"sequences"}]

sql_emails_processed ==
  [kind |-> "create_table", name |-> "emails_processed",
   fn |-> "tokenizer_decode",
   on |-> "v_emails_encoded",
   onsel |-> << <<"id", "id">>, <<"txt", "txt">>, <<"sequences", "vector">> >>,
   top |-> 0,
   dims |-> << [table |-> "summarization_tokenizers", filter |-> ""] >>,
   preserve |-> {"id", "txt"},
   dtype |-> "INT32", skipspecial |-> FALSE]

sql_emails_embeddings_store ==
  [kind |-> "create_table", name |-> "emails_embeddings_store",
   fn |-> "ONNXEmbeddings",
   on |-> "emails.emails", onsel |-> <<>>, top |-> 0,
   dims |-> << [table |-> "embeddings_models", filter |-> "bge-small-en-v1.5"],
               [table |-> "embeddings_tokenizers", filter |-> "bge-small-en-v1.5"] >>,
   preserve |-> {"id", "txt"},
   tensor |-> "sentence_embedding",
   veclen |-> 384, prefix |-> "emb_"]

\* Variant: the feature columns are those of the Japanese notebook's query.
sql_vectordistance_767 ==
  [kind |-> "from_query", name |-> "",
   fn |-> "TD_VECTORDISTANCE",
   on |-> "tdf_embeddings_store_tgt", ref |-> "tdf_embeddings_store_ref",
   idcol |-> "id", refidcol |-> "id",
   prefix |-> "emb_", first |-> 0, last |-> 767,
   refprefix |-> "emb_", reffirst |-> 0, reflast |-> 767,
   topk |-> 3, join |-> "emails.emails"]

sql_vectordistance ==
  [kind |-> "from_query", name |-> "",
   fn |-> "TD_VECTORDISTANCE",
   on |-> "tdf_embeddings_store_tgt", ref |-> "tdf_embeddings_store_ref",
   idcol |-> "id", refidcol |-> "id",
   prefix |-> "emb_", first |-> 0, last |-> 383,
   refprefix |-> "emb_", reffirst |-> 0, reflast |-> 383,
   topk |-> 3, join |-> "emails.emails"]

\* Variant: the tokenizer is looked up under the id of the English notebook.
jp_tokenizer_dimension_bge ==
  [table |-> "embeddings_tokenizers_jp", filter |-> "bge-small-en-v1.5"]

\* on (select model as tokenizer from embeddings_tokenizers_jp where model_id = '...') DIMENSION
jp_tokenizer_dimension ==
  [table |-> "embeddings_tokenizers_jp", filter |-> "sentence-bert-base-ja-mean-tokens-v2"]

\* Variant: PadToMaxLength('False')
jp_PadToMaxLength_off == FALSE

\* PadToMaxLength('True')
jp_PadToMaxLength == TRUE

sql_v_emails_tokenized_for_embeddings_jp ==
  [kind |-> "replace_view", name |-> "v_emails_tokenized_for_embeddings_jp",
   fn |-> "tokenizer_encode",
   on |-> "emails.emails_jp", onsel |-> <<>>, top |-> 100,
   dims |-> << jp_tokenizer_dimension >>,
   preserve |-> {"id", "txt", "txt_jp"},
   outfields |-> {"IDS", "ATTENTION_MASK"},
   maxlen |-> 512, pad |-> jp_PadToMaxLength, dtype |-> "INT64",
   select |-> << <<"id", "id">>, <<"txt", "txt">>, <<"txt_jp", "txt_jp">>,
                 <<"IDS", "input_ids">>,
                 <<"attention_mask", "attention_mask">> >>]

sql_emails_embeddings_jp ==
  [kind |-> "replace_view", name |-> "emails_embeddings_jp",
   fn |-> "IVSM_score",
   on |-> "v_emails_tokenized_for_embeddings_jp", onsel |-> <<>>, top |-> 0,
   dims |-> << [table |-> "embeddings_models_jp",
                filter |-> "sentence-bert-base-ja-mean-tokens-v2"] >>,
   preserve |-> {"id", "txt", "txt_jp"},
   infields |-> {"input_ids", "attention_mask"},
   outfields |-> {"sentence_embedding"}]

\* Variant: a column name the scoring view does not have.
jp_InputColumnName_plural == "sentence_embeddings"

\* InputColumnName('sentence_embedding')
jp_InputColumnName == "sentence_embedding"

\* Variant: the number of columns the notebook's text announces.
jp_VectorLength_md == 384

\* VectorLength(768)
jp_VectorLength == 768

sql_emails_embeddings_store_jp ==
  [kind |-> "create_table", name |-> "emails_embeddings_store_jp",
   fn |-> "vector_to_columns",
   on |-> "emails_embeddings_jp", onsel |-> <<>>, top |-> 0,
   dims |-> <<>>,
   preserve |-> {"id", "txt", "txt_jp"},
   dtype |-> "FLOAT32", veclen |-> jp_VectorLength, prefix |-> "emb_",
   incol |-> jp_InputColumnName]

sql_vectordistance_jp ==
  [kind |-> "from_query", name |-> "",
   fn |-> "TD_VECTORDISTANCE",
   on |-> "tdf_embeddings_store_tgt", ref |-> "tdf_embeddings_store_ref",
   idcol |-> "id", refidcol |-> "id",
   prefix |-> "emb_", first |-> 0, last |-> 767,
   refprefix |-> "emb_", reffirst |-> 0, reflast |-> 767,
   topk |-> 3, join |-> "emails.emails_jp"]

(***************************************************************************)
(* The code cells of the notebooks, statement by statement.                *)
(***************************************************************************)
T5Dir == "t5-small-headline-generator"
T5Raw == "t5-small-headline-generator/t5-small-headline-generator.onnx"
T5Fixed == "t5-small-headline-generator/t5-small-headline-generator_fixed.onnx"
T5Tok == "t5-small-headline-generator/tokenizer.json"
BgeDir == "bge-small-en-v1.5-onnx"
BgeRaw == "bge-small-en-v1.5-onnx/model.onnx"
BgeTok == "bge-small-en-v1.5-onnx/tokenizer.json"
JpDir == "sentence-bert-base-ja-mean-tokens-v2"
JpRaw == "sentence-bert-base-ja-mean-tokens-v2/model.onnx"
JpFixed == "sentence-bert-base-ja-mean-tokens-v2/model_fixed.onnx"
JpTokDir == "sentence-bert-base-ja-mean-tokens-v2-tokenizer"
JpTok == "sentence-bert-base-ja-mean-tokens-v2-tokenizer/tokenizer.json"

sum_cell_1 ==
  << St(1, 81, "import", NoArgs) >>

sum_cell_2 ==
  << St(2, 105, "export",
        [tool |-> "convert_generation", hub |-> "JulesBelveze/t5-small-headline-generator",
         opset |-> 0, out |-> T5Raw, dir |-> "", tok |-> ""]) >>

sum_cell_3 ==
  << St(3, 123, "opset", [version |-> 12]),
     St(3, 126, "onnx_load", [path |-> "./" \o T5Raw]),
     St(3, 128, "make_model", [ir |-> 8]) >>

sum_cell_4 ==
  << St(4, 146, "make_dim_param_fixed", [dim |-> "sequence_length", value |-> 512]),
     St(4, 148, "make_dim_param_fixed", [dim |-> "num_return_sequences", value |-> 1]),
     St(4, 149, "make_dim_param_fixed", [dim |-> "max_length", value |-> 100]),
     St(4, 152, "onnx_save", [path |-> "./" \o T5Fixed]) >>

sum_cell_5 ==
  << St(5, 170, "from_pretrained",
        [cls |-> "T5TokenizerFast", src |-> "JulesBelveze/t5-small-headline-generator",
         hub |-> TRUE]),
     St(5, 171, "inference_session", [path |-> "./" \o T5Fixed]) >>

sum_cell_6 ==
  << St(6, 181, "tokenize", [text |-> "", out |-> "enc", maxlen |-> 512, pad |-> TRUE]),
     St(6, 186, "sess_run",
        [in |-> "enc", out |-> "encoder_result",
         gen |-> [max_length |-> 100, min_length |-> 10, repetition_penalty |-> 2,
                  num_beams |-> 4, num_return_sequences |-> 1, length_penalty |-> 0]]),
     St(6, 198, "decode", [in |-> "encoder_result", skipspecial |-> TRUE]) >>

sum_cell_7 ==
  << St(7, 216, "save_pretrained", [dir |-> T5Dir]) >>

sum_cell_8 ==
  << St(8, 248, "create_context", NoArgs) >>

sum_cell_9 ==
  << Off(9, 275, "db_drop_table", [table |-> "summarization_models"]),
     St(9, 277, "save_byom",
        [id |-> "t5-small-headline-generator", path |-> "./" \o T5Fixed,
         table |-> "summarization_models"]),
     Off(9, 282, "db_drop_table", [table |-> "summarization_tokenizers"]),
     St(9, 283, "save_byom",
        [id |-> "t5-small-headline-generator", path |-> "./" \o T5Tok,
         table |-> "summarization_tokenizers"]) >>

sum_cell_10 ==
  << St(10, 307, "dataframe", [obj |-> "emails.emails", out |-> ""]) >>

sum_cell_11 ==
  << St(11, 329, "replace_view", [sql |-> sql_v_emails_tokenized]) >>

sum_cell_12 ==
  << St(12, 380, "replace_view", [sql |-> sql_v_emails_encoded]) >>

sum_cell_13 ==
  << Off(13, 418, "db_drop_table", [table |-> "emails_processed"]),
     St(13, 419, "create_table", [sql |-> sql_emails_processed]),
     St(13, 437, "magic", NoArgs) >>

sum_cell_14 ==
  << St(14, 447, "dataframe", [obj |-> "emails_processed", out |-> ""]) >>

\* Variant: the closing statement written as a comment.
sum_cell_15_open ==
  << Off(15, 457, "remove_context", NoArgs) >>

sum_cell_15 ==
  << St(15, 457, "remove_context", NoArgs) >>

SummarizationNotebook ==
  sum_cell_1 \o sum_cell_2 \o sum_cell_3 \o sum_cell_4 \o sum_cell_5 \o sum_cell_6 \o
  sum_cell_7 \o sum_cell_8 \o sum_cell_9 \o sum_cell_10 \o sum_cell_11 \o
  sum_cell_12 \o sum_cell_13 \o sum_cell_14 \o sum_cell_15

bge_cell_1 ==
  << St(1, 560, "export",
        [tool |-> "optimum", hub |-> "BAAI/bge-small-en-v1.5",
         opset |-> 16, out |-> BgeRaw, dir |-> BgeDir, tok |-> BgeTok]) >>

bge_cell_2 ==
  << St(2, 581, "import", NoArgs) >>

bge_cell_3 ==
  << St(3, 612, "literal", [var |-> "sentences_1"]),
     St(3, 613, "literal", [var |-> "sentences_2"]) >>

bge_cell_4 ==
  << St(4, 625, "from_pretrained",
        [cls |-> "AutoTokenizer", src |-> "./" \o BgeDir, hub |-> FALSE]),
     St(4, 626, "inference_session", [path |-> BgeRaw]),
     St(4, 628, "tokenize", [text |-> "sentences_1", out |-> "enc1", maxlen |-> 512, pad |-> TRUE]),
     St(4, 629, "sess_run", [in |-> "enc1", out |-> "embeddings_1_onnx"]),
     St(4, 632, "tokenize", [text |-> "sentences_2", out |-> "enc2", maxlen |-> 512, pad |-> TRUE]),
     St(4, 633, "sess_run", [in |-> "enc2", out |-> "embeddings_2_onnx"]) >>

bge_cell_5 ==
  << St(5, 646, "st_load", [hub |-> "BAAI/bge-small-en-v1.5"]),
     St(5, 647, "st_encode", [in |-> "sentences_1", out |-> "embeddings_1_sentence_transformer"]),
     St(5, 648, "st_encode", [in |-> "sentences_2", out |-> "embeddings_2_sentence_transformer"]) >>

\* Variant: the comparison reads index 0, as the Japanese notebook does.
bge_cell_6_index_0 ==
  << St(6, 660, "print_cos_sim",
        [x |-> "embeddings_1_onnx", y |-> "embeddings_2_onnx", onnx |-> TRUE, idx |-> 0]),
     St(6, 661, "print_cos_sim",
        [x |-> "embeddings_1_sentence_transformer", y |-> "embeddings_2_sentence_transformer",
         onnx |-> FALSE, idx |-> 0]) >>

bge_cell_6 ==
  << St(6, 660, "print_cos_sim",
        [x |-> "embeddings_1_onnx", y |-> "embeddings_2_onnx", onnx |-> TRUE, idx |-> 1]),
     St(6, 661, "print_cos_sim",
        [x |-> "embeddings_1_sentence_transformer", y |-> "embeddings_2_sentence_transformer",
         onnx |-> FALSE, idx |-> 0]) >>

bge_cell_7 ==
  << St(7, 695, "create_context", NoArgs) >>

\* Variant: the deployment cell uploads the model file of the Japanese notebook.
bge_cell_8_jp_path ==
  << St(8, 722, "db_drop_table", [table |-> "embeddings_models"]),
     St(8, 723, "save_byom",
        [id |-> "bge-small-en-v1.5", path |-> JpFixed, table |-> "embeddings_models"]),
     St(8, 728, "db_drop_table", [table |-> "embeddings_tokenizers"]),
     St(8, 729, "save_byom",
        [id |-> "bge-small-en-v1.5", path |-> BgeTok, table |-> "embeddings_tokenizers"]) >>

bge_cell_8 ==
  << St(8, 722, "db_drop_table", [table |-> "embeddings_models"]),
     St(8, 723, "save_byom",
        [id |-> "bge-small-en-v1.5", path |-> BgeRaw, table |-> "embeddings_models"]),
     St(8, 728, "db_drop_table", [table |-> "embeddings_tokenizers"]),
     St(8, 729, "save_byom",
        [id |-> "bge-small-en-v1.5", path |-> BgeTok, table |-> "embeddings_tokenizers"]) >>

\* Variant: the drop before the create table is live code.
bge_cell_9_drop ==
  << St(9, 752, "db_drop_table", [table |-> "emails_embeddings_store"]),
     St(9, 754, "create_table", [sql |-> sql_emails_embeddings_store]) >>

bge_cell_9 ==
  << Off(9, 752, "db_drop_table", [table |-> "emails_embeddings_store"]),
     St(9, 754, "create_table", [sql |-> sql_emails_embeddings_store]) >>

bge_cell_10 ==
  << St(10, 782, "dataframe", [obj |-> "emails_embeddings_store", out |-> "tdf_embeddings_store"]),
     St(10, 783, "head", [in |-> "tdf_embeddings_store"]) >>

bge_cell_11 ==
  << St(11, 830, "filter",
        [in |-> "tdf_embeddings_store", out |-> "tdf_embeddings_store_tgt", eq |-> TRUE, id |-> 3]),
     St(11, 831, "filter",
        [in |-> "tdf_embeddings_store", out |-> "tdf_embeddings_store_ref", eq |-> FALSE, id |-> 3]) >>

bge_cell_12 ==
  << St(12, 841, "from_query", [sql |-> sql_vectordistance]) >>

bge_cell_13 ==
  << St(13, 873, "remove_context", NoArgs) >>

BgeNotebook ==
  bge_cell_1 \o bge_cell_2 \o bge_cell_3 \o bge_cell_4 \o bge_cell_5 \o bge_cell_6 \o
  bge_cell_7 \o bge_cell_8 \o bge_cell_9 \o bge_cell_10 \o bge_cell_11 \o
  bge_cell_12 \o bge_cell_13

jp_cell_1 ==
  << St(1, 77, "export",
        [tool |-> "optimum", hub |-> "sonoisa/sentence-bert-base-ja-mean-tokens-v2",
         opset |-> 16, out |-> JpRaw, dir |-> JpDir, tok |-> ""]) >>

jp_cell_2 ==
  << St(2, 98, "import", NoArgs),
     St(2, 109, "opset", [version |-> 16]),
     St(2, 117, "onnx_load", [path |-> JpRaw]) >>

jp_cell_3 ==
  << St(3, 129, "make_model", [ir |-> 8]),
     St(3, 133, "make_dim_param_fixed", [dim |-> "batch_size", value |-> 1]),
     St(3, 134, "make_dim_param_fixed", [dim |-> "sequence_length", value |-> 512]),
     St(3, 135, "make_dim_param_fixed", [dim |-> "Concatsentence_embedding_dim_1", value |-> 768]),
     St(3, 139, "remove_output_loop", [name |-> "token_embeddings"]),
     St(3, 144, "onnx_save", [path |-> JpFixed]) >>

jp_cell_4 ==
  << St(4, 164, "literal", [var |-> "sentences_1"]),
     St(4, 165, "literal", [var |-> "sentences_2"]) >>

jp_cell_5 ==
  << St(5, 177, "from_pretrained",
        [cls |-> "AutoTokenizer", src |-> "./" \o JpDir, hub |-> FALSE]),
     St(5, 178, "inference_session", [path |-> JpFixed]),
     St(5, 180, "tokenize", [text |-> "sentences_1", out |-> "enc1", maxlen |-> 512, pad |-> TRUE]),
     St(5, 181, "sess_run", [in |-> "enc1", out |-> "embeddings_1_onnx"]),
     St(5, 184, "tokenize", [text |-> "sentences_2", out |-> "enc2", maxlen |-> 512, pad |-> TRUE]),
     St(5, 185, "sess_run", [in |-> "enc2", out |-> "embeddings_2_onnx"]) >>

jp_cell_6 ==
  << St(6, 198, "st_load", [hub |-> "sonoisa/sentence-bert-base-ja-mean-tokens-v2"]),
     St(6, 199, "st_encode", [in |-> "sentences_1", out |-> "embeddings_1_sentence_transformer"]),
     St(6, 200, "st_encode", [in |-> "sentences_2", out |-> "embeddings_2_sentence_transformer"]) >>

jp_cell_7 ==
  << St(7, 212, "print_cos_sim",
        [x |-> "embeddings_1_onnx", y |-> "embeddings_2_onnx", onnx |-> TRUE, idx |-> 0]),
     St(7, 213, "print_cos_sim",
        [x |-> "embeddings_1_sentence_transformer", y |-> "embeddings_2_sentence_transformer",
         onnx |-> FALSE, idx |-> 0]) >>

jp_cell_8 ==
  << St(8, 223, "from_pretrained",
        [cls |-> "BertTokenizerFast", src |-> JpDir, hub |-> FALSE]) >>

jp_cell_9 ==
  << St(9, 235, "save_pretrained", [dir |-> JpTokDir]) >>

jp_cell_10 ==
  << St(10, 269, "create_context", NoArgs) >>

jp_cell_11 ==
  << Off(11, 296, "db_drop_table", [table |-> "embeddings_models_jp"]),
     St(11, 297, "save_byom",
        [id |-> "sentence-bert-base-ja-mean-tokens-v2", path |-> JpFixed,
         table |-> "embeddings_models_jp"]),
     Off(11, 302, "db_drop_table", [table |-> "embeddings_tokenizers_jp"]),
     St(11, 303, "save_byom",
        [id |-> "sentence-bert-base-ja-mean-tokens-v2", path |-> JpTok,
         table |-> "embeddings_tokenizers_jp"]) >>

jp_cell_12 ==
  << St(12, 329, "dataframe", [obj |-> "emails.emails_jp", out |-> ""]) >>

jp_cell_13 ==
  << St(13, 339, "replace_view", [sql |-> sql_v_emails_tokenized_for_embeddings_jp]) >>

jp_cell_14 ==
  << St(14, 369, "dataframe", [obj |-> "v_emails_tokenized_for_embeddings_jp", out |-> ""]) >>

jp_cell_15 ==
  << St(15, 389, "replace_view", [sql |-> sql_emails_embeddings_jp]) >>

jp_cell_16 ==
  << St(16, 427, "db_drop_table", [table |-> "emails_embeddings_store_jp"]),
     St(16, 429, "create_table", [sql |-> sql_emails_embeddings_store_jp]) >>

jp_cell_17 ==
  << St(17, 455, "dataframe",
        [obj |-> "emails_embeddings_store_jp", out |-> "tdf_embeddings_store"]),
     St(17, 456, "head", [in |-> "tdf_embeddings_store"]) >>

\* Variant: the reference rows are selected with another id than the target row.
jp_cell_18_other_id ==
  << St(18, 503, "filter",
        [in |-> "tdf_embeddings_store", out |-> "tdf_embeddings_store_tgt", eq |-> TRUE, id |-> 3]),
     St(18, 504, "filter",
        [in |-> "tdf_embeddings_store", out |-> "tdf_embeddings_store_ref", eq |-> FALSE, id |-> 4]) >>

jp_cell_18 ==
  << St(18, 503, "filter",
        [in |-> "tdf_embeddings_store", out |-> "tdf_embeddings_store_tgt", eq |-> TRUE, id |-> 3]),
     St(18, 504, "filter",
        [in |-> "tdf_embeddings_store", out |-> "tdf_embeddings_store_ref", eq |-> FALSE, id |-> 3]) >>

jp_cell_19 ==
  << St(19, 514, "from_query", [sql |-> sql_vectordistance_jp]) >>

jp_cell_20 ==
  << St(20, 548, "remove_context", NoArgs) >>

JapaneseNotebook ==
  jp_cell_1 \o jp_cell_2 \o jp_cell_3 \o jp_cell_4 \o jp_cell_5 \o jp_cell_6 \o
  jp_cell_7 \o jp_cell_8 \o jp_cell_9 \o jp_cell_10 \o jp_cell_11 \o jp_cell_12 \o
  jp_cell_13 \o jp_cell_14 \o jp_cell_15 \o jp_cell_16 \o jp_cell_17 \o jp_cell_18 \o
  jp_cell_19 \o jp_cell_20

Program(n) ==
  CASE n = "sum" -> SummarizationNotebook
    [] n = "bge" -> BgeNotebook
    [] n = "jp" -> JapaneseNotebook

(***************************************************************************)
(* State.                                                                  *)
(***************************************************************************)
VARIABLES
  nb,         \* the notebook being run
  pre,        \* the notebook's tables that exist before the first run
  emails,     \* token count of the text of each row of the source table
  total,      \* number of rows of the source table
  run,        \* number of the current top-to-bottom run
  pc,         \* index in Program(nb) of the next statement
  status,     \* "running", "aborted" (a statement raised) or "done"
  files,      \* local files and directories
  py,         \* objects bound to the kernel's names
  taint,      \* where the value bound to each data name comes from
  fed,        \* origins of the data given so far to a local model
  df,         \* teradataml DataFrame handles bound to names
  session,    \* a database session is open
  byom,       \* model and tokenizer tables
  tables,     \* result tables
  views,      \* views: index of the statement that defined the view, 0 if absent
  produced,   \* run and cell that last wrote each artifact
  prevOp,     \* object created by the latest operator cell of this run
  ctxRemoved, \* remove_context was executed in this run
  drops,      \* drop statements executed in this run, and drops of a missing table
  attempted,  \* statements attempted in this run
  retried     \* a statement was attempted twice in one run

vars == <<nb, pre, emails, total, run, pc, status, files, py, taint, fed, df, session, byom,
          tables, views, produced, prevOp, ctxRemoved, drops, attempted, retried>>

localv == <<files, py, taint, fed, df>>
dbv == <<session, byom, tables, views>>

Paths == {T5Dir, T5Raw, T5Fixed, T5Tok, BgeDir, BgeRaw, BgeTok,
          JpDir, JpRaw, JpFixed, JpTokDir, JpTok}
SourceTables == {"emails.emails", "emails.emails_jp"}
ByomTables == {"summarization_models", "summarization_tokenizers",
               "embeddings_models", "embeddings_tokenizers",
               "embeddings_models_jp", "embeddings_tokenizers_jp"}
DataTables == {"emails_processed", "emails_embeddings_store", "emails_embeddings_store_jp"}
ViewNames == {"v_emails_tokenized", "v_emails_encoded",
              "v_emails_tokenized_for_embeddings_jp", "emails_embeddings_jp"}
Artifacts == Paths \cup {"session"} \cup SourceTables \cup ByomTables
             \cup DataTables \cup ViewNames \cup {""}
DataNames == {"sentences_1", "sentences_2", "enc", "enc1", "enc2", "encoder_result",
              "embeddings_1_onnx", "embeddings_2_onnx",
              "embeddings_1_sentence_transformer", "embeddings_2_sentence_transformer",
              "tdf_embeddings_store", "tdf_embeddings_store_tgt",
              "tdf_embeddings_store_ref", ""}
DfNames == {"tdf_embeddings_store", "tdf_embeddings_store_tgt", "tdf_embeddings_store_ref"}

\* The tables a notebook writes.
TablesOf(n) ==
  CASE n = "sum" -> {"summarization_models", "summarization_tokenizers", "emails_processed"}
    [] n = "bge" -> {"embeddings_models", "embeddings_tokenizers", "emails_embeddings_store"}
    [] n = "jp" -> {"embeddings_models_jp", "embeddings_tokenizers_jp",
                    "emails_embeddings_store_jp"}

\* The id under which a notebook registers its model and its tokenizer.
ModelIdOf(n) ==
  CASE n = "sum" -> "t5-small-headline-generator"
    [] n = "bge" -> "bge-small-en-v1.5"
    [] n = "jp" -> "sentence-bert-base-ja-mean-tokens-v2"

\* "./x" and "x" name the same file.
NormPath(p) ==
  IF \E q \in Paths : p = "./" \o q THEN CHOOSE q \in Paths : p = "./" \o q ELSE p

(***************************************************************************)
(* ONNX graphs, tokenizers and files.                                      *)
(* A dimension is -1 when the graph has no such parameter, 0 while it is   *)
(* dynamic, and its value once fixed.                                      *)
(***************************************************************************)
DimNames == {"batch_size", "sequence_length", "num_return_sequences", "max_length",
             "Concatsentence_embedding_dim_1"}
NoGraph == [by |-> "", dims |-> [d \in DimNames |-> -1], opset |-> 0, ir |-> 0,
            outputs |-> <<>>, hidden |-> 0]
NoTok == [cls |-> "", src |-> ""]
NoFile == [kind |-> "none", graph |-> NoGraph, tok |-> NoTok]

\* Width of the sentence embedding of the exported hub model.
HubHiddenSize(hub) ==
  CASE hub = "BAAI/bge-small-en-v1.5" -> 384
    [] hub = "sonoisa/sentence-bert-base-ja-mean-tokens-v2" -> 768
    [] OTHER -> 0

\* The graph written by the export tool of a notebook.
ExportedGraph(a) ==
  IF a.tool = "convert_generation"
  THEN [by |-> "export",
        dims |-> [d \in DimNames |->
                    IF d \in {"sequence_length", "num_return_sequences", "max_length"}
                    THEN 0 ELSE -1],
        opset |-> a.opset, ir |-> 0, outputs |-> <<"sequences">>, hidden |-> 0]
  ELSE [by |-> "export",
        dims |-> [d \in DimNames |->
                    IF d \in {"batch_size", "sequence_length",
                              "Concatsentence_embedding_dim_1"} THEN 0 ELSE -1],
        opset |-> a.opset, ir |-> 0,
        outputs |-> <<"token_embeddings", "sentence_embedding">>,
        hidden |-> HubHiddenSize(a.hub)]

\* onnx.helper.make_model(model.graph, ir_version = ir, opset_imports = [op])
MakeModel(g, ir, opv) == [g EXCEPT !.by = "make_model", !.ir = ir, !.opset = opv]

\* make_dim_param_fixed(graph, dim, value): a parameter the graph does not
\* have is left alone.
MakeDimParamFixed(g, dim, value) ==
  IF g.dims[dim] = 0 THEN [g EXCEPT !.dims[dim] = value] ELSE g

\* outputs.remove(node): the first element equal to node leaves the list.
RemoveFirst(outs, name) ==
  LET k == CHOOSE k \in 1..Len(outs) :
             outs[k] = name /\ \A j \in 1..(k - 1) : outs[j] # name
  IN SubSeq(outs, 1, k - 1) \o SubSeq(outs, k + 1, Len(outs))

\* Variant: the first output is dropped whatever its name.
RemoveLoop_pop(outs, i, name) ==
  IF Len(outs) > 0 THEN Tail(outs) ELSE outs

\* "for node in outputs: if node.name == name: outputs.remove(node)":
\* the iterator is an index into the list that is being shortened.
RECURSIVE RemoveLoop(_, _, _)
RemoveLoop(outs, i, name) ==
  IF i > Len(outs) THEN outs
  ELSE IF outs[i] = name
       THEN RemoveLoop(RemoveFirst(outs, name), i + 1, name)
       ELSE RemoveLoop(outs, i + 1, name)

RemoveOutput(g, name) == [g EXCEPT !.outputs = RemoveLoop(g.outputs, 1, name)]

\* Length of the vector a tokenizer returns for a text of n tokens.
EncodeLen(n, maxlen, pad) ==
  IF n >= maxlen THEN maxlen ELSE IF pad THEN maxlen ELSE n

\* Token count of the literal sentences of the notebooks.
LiteralLen == 12

\* A session accepts an input of length n when the dimension is dynamic or equal.
AcceptsLen(g, n) ==
  g.dims["sequence_length"] = 0 \/ g.dims["sequence_length"] = n

\* Number of elements of an output tensor for one input row.
OutLen(g, name) ==
  IF name = "sequences"
  THEN g.dims["num_return_sequences"] * g.dims["max_length"]
  ELSE IF name = "sentence_embedding"
       THEN IF g.dims["Concatsentence_embedding_dim_1"] > 0
            THEN g.dims["Concatsentence_embedding_dim_1"] ELSE g.hidden
       ELSE 0

InSeq(x, sq) == \E i \in 1..Len(sq) : sq[i] = x

(***************************************************************************)
(* The database: column sets, rows and the table operators.                *)
(* A column set is the named columns plus embn columns prefix0..prefixN.   *)
(* A row carries the lengths of its vectors, not their elements.           *)
(***************************************************************************)
Cols(names, prefix, embn) == [names |-> names, prefix |-> prefix, embn |-> embn]

\* Column names are not case sensitive in SQL.
Lower(c) ==
  CASE c = "IDS" -> "ids"
    [] c = "ATTENTION_MASK" -> "attention_mask"
    [] OTHER -> c

HasCol(cols, c) == \E x \in cols.names : Lower(x) = Lower(c)
HasCols(cols, cs) == \A c \in cs : HasCol(cols, c)
\* The columns prefix<first> .. prefix<last> of a '[a:b]' range.
HasRange(cols, prefix, first, last) ==
  /\ cols.prefix = prefix
  /\ first >= 0
  /\ first <= last
  /\ last < cols.embn

SourceCols(obj) ==
  IF obj = "emails.emails_jp" THEN Cols({"id", "txt", "txt_jp"}, "", 0)
  ELSE Cols({"id", "txt"}, "", 0)

SourceRows ==
  {[id |-> i, toks |-> emails[i], ids |-> 0, mask |-> 0, vec |-> 0, embn |-> 0, gen |-> run]
     : i \in 1..NumRows}

\* "select top n" without ORDER BY: any n of the total rows; what is left
\* out may be any of the rows, followed one by one or not.
TopChoices(n) ==
  IF n = 0 \/ n >= total THEN {SourceRows}
  ELSE {S \in SUBSET SourceRows :
          /\ Cardinality(S) <= n
          /\ Cardinality(SourceRows) - Cardinality(S) <= total - n}

Rel(static, dyn, cols, rows) == [static |-> static, dyn |-> dyn, cols |-> cols, rows |-> rows]
NoRel == Rel(FALSE, FALSE, Cols({}, "", 0), {})

\* The rows of a model or tokenizer table that a DIMENSION input selects.
DimRows(d) ==
  IF ~byom[d.table].exists THEN <<>>
  ELSE SelectSeq(byom[d.table].rows, LAMBDA r : d.filter = "" \/ r.model_id = d.filter)

DimsNonEmpty(sql) ==
  \A i \in 1..Len(sql.dims) : Len(DimRows(sql.dims[i])) > 0

\* The graph of the model that a scoring operator runs.
DimGraph(sql) ==
  IF Len(sql.dims) > 0 /\ Len(DimRows(sql.dims[1])) > 0
  THEN DimRows(sql.dims[1])[1].blob.graph ELSE NoGraph

Aliases(sel) == {sel[i][2] : i \in 1..Len(sel)}
Selected(sel) == {sel[i][1] : i \in 1..Len(sel)}

\* The columns an operator is told to read from its data input.
ReadCols(sql) ==
  CASE sql.fn = "tokenizer_encode" -> sql.preserve
    [] sql.fn = "IVSM_score" -> sql.preserve \cup sql.infields
    [] sql.fn = "tokenizer_decode" -> Selected(sql.onsel)
    [] sql.fn = "ONNXEmbeddings" -> sql.preserve
    [] sql.fn = "vector_to_columns" -> sql.preserve \cup {sql.incol}
    [] sql.fn = "TD_VECTORDISTANCE" -> {sql.idcol, sql.refidcol}

\* The columns of the view or table that the statement creates.
OutCols(sql) ==
  CASE sql.fn = "tokenizer_encode" -> Cols(Aliases(sql.select), "", 0)
    [] sql.fn = "IVSM_score" -> Cols(sql.preserve \cup sql.outfields, "", 0)
    [] sql.fn = "tokenizer_decode" -> Cols(sql.preserve \cup {"txt_decoded"}, "", 0)
    [] sql.fn = "ONNXEmbeddings" -> Cols(sql.preserve, sql.prefix, sql.veclen)
    [] sql.fn = "vector_to_columns" -> Cols(sql.preserve, sql.prefix, sql.veclen)
    [] sql.fn = "TD_VECTORDISTANCE" ->
         Cols({"target_id", "reference_id", "distance"}, "", 0)

\* Every column the statement names can be resolved against its input.
ColsOK(sql, incols) ==
  /\ HasCols(incols, ReadCols(sql))
  /\ sql.fn = "tokenizer_encode" =>
       HasCols(Cols(sql.preserve \cup sql.outfields, "", 0), Selected(sql.select))
  /\ sql.fn = "tokenizer_decode" =>
       /\ HasCols(Cols(Aliases(sql.onsel), "", 0), sql.preserve)
       /\ "vector" \in Aliases(sql.onsel)
  /\ sql.fn = "TD_VECTORDISTANCE" =>
       /\ HasRange(incols, sql.prefix, sql.first, sql.last)
       /\ HasRange(incols, sql.refprefix, sql.reffirst, sql.reflast)

\* One output row of an operator for one input row.
OutRow(sql, r, g) ==
  CASE sql.fn = "tokenizer_encode" ->
         [r EXCEPT !.ids = EncodeLen(r.toks, sql.maxlen, sql.pad),
                   !.mask = EncodeLen(r.toks, sql.maxlen, sql.pad)]
    [] sql.fn = "IVSM_score" ->
         [r EXCEPT !.vec = OutLen(g, CHOOSE f \in sql.outfields : TRUE)]
    [] sql.fn = "tokenizer_decode" -> r
    [] sql.fn = "ONNXEmbeddings" -> [r EXCEPT !.embn = sql.veclen]
    [] sql.fn = "vector_to_columns" -> [r EXCEPT !.embn = sql.veclen]

\* The operator can process the rows of its input.
RowsOK(sql, rows, g) ==
  CASE sql.fn = "tokenizer_encode" -> DimsNonEmpty(sql)
    [] sql.fn = "IVSM_score" ->
         /\ DimsNonEmpty(sql)
         /\ \A f \in sql.outfields : InSeq(f, g.outputs)
         /\ \A r \in rows : AcceptsLen(g, r.ids) /\ AcceptsLen(g, r.mask)
    [] sql.fn = "tokenizer_decode" -> DimsNonEmpty(sql)
    [] sql.fn = "ONNXEmbeddings" ->
         /\ DimsNonEmpty(sql)
         /\ InSeq(sql.tensor, g.outputs)
    [] sql.fn = "vector_to_columns" -> TRUE

\* The relation an operator statement yields on an input relation.
Apply(sql, in) ==
  LET g == DimGraph(sql)
      static == /\ in.static
                /\ \A i \in 1..Len(sql.dims) : byom[sql.dims[i].table].exists
                /\ ColsOK(sql, in.cols)
      dyn == static /\ in.dyn /\ RowsOK(sql, in.rows, g)
  IN Rel(static, dyn, OutCols(sql),
         IF dyn THEN {OutRow(sql, r, g) : r \in in.rows} ELSE {})

\* The relation a table or view name denotes, the source table read
\* through "top" yielding the rows pick.
RECURSIVE Eval(_, _)
Eval(obj, pick) ==
  IF obj \in SourceTables THEN Rel(TRUE, TRUE, SourceCols(obj), pick)
  ELSE IF obj \in DataTables
       THEN IF tables[obj].exists
            THEN Rel(TRUE, TRUE, tables[obj].cols, tables[obj].rows) ELSE NoRel
       ELSE IF obj \in ViewNames /\ views[obj] > 0
            THEN LET sql == Program(nb)[views[obj]].a.sql
                 IN Apply(sql, Eval(sql.on, pick))
            ELSE NoRel

\* The columns of an existing table or view.
ColsOf(obj) == Eval(obj, SourceRows).cols

\* The rows a DataFrame name stands for when a query uses it:
\* tdf, tdf[tdf.id == n] or tdf[tdf.id != n].
DfRows(d) ==
  {r \in Eval(d.obj, SourceRows).rows : d.all \/ (d.eq <=> r.id = d.id)}

\* The results TD_VECTORDISTANCE can give: for each target row the topk
\* nearest reference rows, whichever they are; the rows are then joined
\* to the source table on target_id and on reference_id.
VectorDistance(sql, tgt, ref) ==
  LET k == IF Cardinality(ref) < sql.topk THEN Cardinality(ref) ELSE sql.topk
      near == {S \in SUBSET ref : Cardinality(S) = k}
      ids == {r.id : r \in Eval(sql.join, SourceRows).rows}
  IN {{x \in UNION {{[target_id |-> t.id, reference_id |-> r.id] : r \in f[t]} : t \in tgt} :
         x.target_id \in ids /\ x.reference_id \in ids}
        : f \in [tgt -> near]}

(***************************************************************************)
(* Running a notebook.                                                     *)
(***************************************************************************)
PyInit == [op |-> 0, model |-> NoGraph, model_ir8 |-> NoGraph, tokenizer |-> NoTok,
           predef_sess |-> NoGraph, st |-> "", lens |-> [v \in {"enc", "enc1", "enc2"} |-> 0],
           outs |-> <<>>, picked |-> "", tested |-> NoTok,
           gen |-> [max_length |-> 0, min_length |-> 0, repetition_penalty |-> 0,
                    num_beams |-> 0, num_return_sequences |-> 0, length_penalty |-> 0],
           skip |-> FALSE]
NoDf == [obj |-> "", all |-> TRUE, eq |-> TRUE, id |-> 0]
NoDrops == [n |-> 0, missing |-> FALSE]

\* The row a previous deployment left in a model or tokenizer table.
OldRow(n) == [model_id |-> ModelIdOf(n), blob |-> NoFile, gen |-> 0]
\* The rows a previous run left in a result table.
OldRows ==
  {[id |-> i, toks |-> emails[i], ids |-> 0, mask |-> 0, vec |-> 0, embn |-> 0, gen |-> 0]
     : i \in 1..NumRows}

Init ==
  /\ nb \in Notebooks
  /\ emails \in EmailTables
  /\ total \in TableSizes
  /\ run = 1
  /\ pc = 1
  /\ status = "running"
  /\ files = [p \in Paths |-> NoFile]
  /\ py = PyInit
  /\ taint = [v \in DataNames |-> {}]
  /\ fed = {}
  /\ df = [v \in DfNames |-> NoDf]
  /\ session = FALSE
  /\ pre \in SUBSET TablesOf(nb)
  /\ byom = [t \in ByomTables |->
               IF t \in pre THEN [exists |-> TRUE, rows |-> <<OldRow(nb)>>]
               ELSE [exists |-> FALSE, rows |-> <<>>]]
  /\ tables = [t \in DataTables |->
                 IF t \in pre
                 THEN [exists |-> TRUE, cols |-> Cols({"id", "txt"}, "", 0),
                       rows |-> OldRows]
                 ELSE [exists |-> FALSE, cols |-> Cols({}, "", 0), rows |-> {}]]
  /\ views = [v \in ViewNames |-> 0]
  /\ produced = [a \in Artifacts |-> [run |-> 0, cell |-> 0]]
  /\ prevOp = ""
  /\ ctxRemoved = FALSE
  /\ drops = NoDrops
  /\ attempted = {}
  /\ retried = FALSE

Cur == Program(nb)[pc]
Active == status = "running" /\ ~Cur.off
At(op) == status = "running" /\ Cur.op = op /\ ~Cur.off

TableExists(t) ==
  IF t \in ByomTables THEN byom[t].exists
  ELSE IF t \in DataTables THEN tables[t].exists ELSE FALSE

ObjExists(obj) ==
  \/ obj \in SourceTables
  \/ TableExists(obj)
  \/ obj \in ViewNames /\ views[obj] > 0

\* Variant: control moves on while the statement is still running.
Advance_background(writes) ==
  /\ pc' = pc + 1
  /\ status' = IF pc = Len(Program(nb)) THEN "done" ELSE "running"
  /\ produced' = [a \in Artifacts |->
                    IF a \in writes THEN [run |-> run, cell |-> Cur.cell] ELSE produced[a]]
  /\ attempted' = attempted
  /\ retried' = retried
  /\ UNCHANGED <<nb, pre, emails, total, run>>

\* The statement completes: control moves to the next statement, and the
\* run is done after the last one.
Advance(writes) ==
  /\ pc' = pc + 1
  /\ status' = IF pc = Len(Program(nb)) THEN "done" ELSE "running"
  /\ produced' = [a \in Artifacts |->
                    IF a \in writes THEN [run |-> run, cell |-> Cur.cell] ELSE produced[a]]
  /\ attempted' = attempted \cup {pc}
  /\ retried' = (retried \/ pc \in attempted)
  /\ UNCHANGED <<nb, pre, emails, total, run>>

\* A statement written as a comment is not executed.
Comment ==
  /\ status = "running"
  /\ Cur.off
  /\ pc' = pc + 1
  /\ status' = IF pc = Len(Program(nb)) THEN "done" ELSE "running"
  /\ UNCHANGED <<nb, pre, emails, total, run, localv, dbv, produced, prevOp, ctxRemoved, drops,
                 attempted, retried>>

Import ==
  /\ At("import")
  /\ Advance({})
  /\ UNCHANGED <<localv, dbv, prevOp, ctxRemoved, drops>>

Magic ==
  /\ At("magic")
  /\ Advance({})
  /\ UNCHANGED <<localv, dbv, prevOp, ctxRemoved, drops>>

\* "! python3 -m onnxruntime.transformers.convert_generation ..." and
\* "! optimum-cli export onnx ...": writes the model file, and optimum also
\* the tokenizer files of the hub model, into the output directory.
Export ==
  /\ At("export")
  /\ LET a == Cur.a
         hubtok == [cls |-> "hub", src |-> a.hub]
     IN /\ files' = [p \in Paths |->
                       IF p = a.out
                       THEN [kind |-> "onnx", graph |-> ExportedGraph(a), tok |-> NoTok]
                       ELSE IF p = a.dir /\ a.dir # ""
                       THEN [kind |-> "dir", graph |-> NoGraph, tok |-> hubtok]
                       ELSE IF p = a.tok /\ a.tok # ""
                       THEN [kind |-> "tokenizer", graph |-> NoGraph, tok |-> hubtok]
                       ELSE files[p]]
        /\ Advance({a.out, a.dir, a.tok} \ {""})
  /\ UNCHANGED <<py, taint, fed, df, dbv, prevOp, ctxRemoved, drops>>

\* op = onnx.OperatorSetIdProto(); op.version = N
Opset ==
  /\ At("opset")
  /\ py' = [py EXCEPT !.op = Cur.a.version]
  /\ Advance({})
  /\ UNCHANGED <<files, taint, fed, df, dbv, prevOp, ctxRemoved, drops>>

\* model = onnx.load(path)
OnnxLoad ==
  /\ At("onnx_load")
  /\ files[NormPath(Cur.a.path)].kind = "onnx"
  /\ py' = [py EXCEPT !.model = files[NormPath(Cur.a.path)].graph]
  /\ Advance({})
  /\ UNCHANGED <<files, taint, fed, df, dbv, prevOp, ctxRemoved, drops>>

\* model_ir8 = onnx.helper.make_model(model.graph, ir_version = 8, opset_imports = [op])
MakeModelStmt ==
  /\ At("make_model")
  /\ py.model # NoGraph
  /\ py.op # 0
  /\ py' = [py EXCEPT !.model_ir8 = MakeModel(py.model, Cur.a.ir, py.op)]
  /\ Advance({})
  /\ UNCHANGED <<files, taint, fed, df, dbv, prevOp, ctxRemoved, drops>>

\* rt.tools.onnx_model_utils.make_dim_param_fixed(model_ir8.graph, dim, value)
FixDim ==
  /\ At("make_dim_param_fixed")
  /\ py.model_ir8 # NoGraph
  /\ py' = [py EXCEPT !.model_ir8 = MakeDimParamFixed(py.model_ir8, Cur.a.dim, Cur.a.value)]
  /\ Advance({})
  /\ UNCHANGED <<files, taint, fed, df, dbv, prevOp, ctxRemoved, drops>>

\* the loop that removes the token_embeddings output
RemoveOutputLoop ==
  /\ At("remove_output_loop")
  /\ py.model_ir8 # NoGraph
  /\ py' = [py EXCEPT !.model_ir8 = RemoveOutput(py.model_ir8, Cur.a.name)]
  /\ Advance({})
  /\ UNCHANGED <<files, taint, fed, df, dbv, prevOp, ctxRemoved, drops>>

\* onnx.save(model_ir8, path)
OnnxSave ==
  /\ At("onnx_save")
  /\ py.model_ir8 # NoGraph
  /\ files' = [files EXCEPT ![NormPath(Cur.a.path)] =
                 [kind |-> "onnx", graph |-> py.model_ir8, tok |-> NoTok]]
  /\ Advance({NormPath(Cur.a.path)})
  /\ UNCHANGED <<py, taint, fed, df, dbv, prevOp, ctxRemoved, drops>>

\* Variant: the sentences are fetched from a table.
TableOrigin == {"db"}

\* Where the value of a literal assignment comes from.
LiteralOrigin == {"literal"}
\* Where a text handed to a local model comes from: the name it is bound
\* to, or a string literal written in the call.
TextOrigin(text) == IF text = "" THEN LiteralOrigin ELSE taint[text]

\* sentences_1 = '...'
Literal ==
  /\ At("literal")
  /\ taint' = [taint EXCEPT ![Cur.a.var] = LiteralOrigin]
  /\ Advance({})
  /\ UNCHANGED <<files, py, fed, df, dbv, prevOp, ctxRemoved, drops>>

\* tokenizer = transformers.<cls>.from_pretrained(src): AutoTokenizer builds
\* the tokenizer that the directory describes, a named class builds a
\* tokenizer of that class from the directory's files.
FromPretrained ==
  /\ At("from_pretrained")
  /\ LET a == Cur.a
     IN /\ IF a.hub THEN TRUE ELSE files[NormPath(a.src)].kind = "dir"
        /\ py' = [py EXCEPT !.tokenizer =
                    [cls |-> IF a.cls = "AutoTokenizer"
                             THEN IF a.hub THEN "hub" ELSE files[NormPath(a.src)].tok.cls
                             ELSE a.cls,
                     src |-> IF a.hub THEN a.src ELSE files[NormPath(a.src)].tok.src]]
  /\ Advance({})
  /\ UNCHANGED <<files, taint, fed, df, dbv, prevOp, ctxRemoved, drops>>

\* predef_sess = rt.InferenceSession(path)
InferenceSession ==
  /\ At("inference_session")
  /\ files[NormPath(Cur.a.path)].kind = "onnx"
  /\ py' = [py EXCEPT !.predef_sess = files[NormPath(Cur.a.path)].graph]
  /\ Advance({})
  /\ UNCHANGED <<files, taint, fed, df, dbv, prevOp, ctxRemoved, drops>>

\* enc = tokenizer(text, max_length = 512, padding = 'max_length')
Tokenize ==
  /\ At("tokenize")
  /\ py.tokenizer # NoTok
  /\ TextOrigin(Cur.a.text) # {}
  /\ py' = [py EXCEPT !.lens[Cur.a.out] = EncodeLen(LiteralLen, Cur.a.maxlen, Cur.a.pad),
                      !.tested = py.tokenizer]
  /\ taint' = [taint EXCEPT ![Cur.a.out] = TextOrigin(Cur.a.text)]
  /\ fed' = fed \cup TextOrigin(Cur.a.text)
  /\ Advance({})
  /\ UNCHANGED <<files, df, dbv, prevOp, ctxRemoved, drops>>

\* out = predef_sess.run(None, {"input_ids": [enc.input_ids], ...})
SessRun ==
  /\ At("sess_run")
  /\ py.predef_sess # NoGraph
  /\ taint[Cur.a.in] # {}
  /\ AcceptsLen(py.predef_sess, py.lens[Cur.a.in])
  /\ py' = [py EXCEPT !.outs = py.predef_sess.outputs,
                      !.gen = IF "gen" \in DOMAIN Cur.a THEN Cur.a.gen ELSE @]
  /\ taint' = [taint EXCEPT ![Cur.a.out] = taint[Cur.a.in]]
  /\ fed' = fed \cup taint[Cur.a.in]
  /\ Advance({})
  /\ UNCHANGED <<files, df, dbv, prevOp, ctxRemoved, drops>>

\* tokenizer.decode(encoder_result[0][0][0], skip_special_tokens = True)
Decode ==
  /\ At("decode")
  /\ py.tokenizer # NoTok
  /\ taint[Cur.a.in] # {}
  /\ py' = [py EXCEPT !.skip = Cur.a.skipspecial]
  /\ fed' = fed \cup taint[Cur.a.in]
  /\ Advance({})
  /\ UNCHANGED <<files, taint, df, dbv, prevOp, ctxRemoved, drops>>

\* model = SentenceTransformer(hub): the name model is bound anew
StLoad ==
  /\ At("st_load")
  /\ py' = [py EXCEPT !.st = Cur.a.hub, !.model = NoGraph]
  /\ Advance({})
  /\ UNCHANGED <<files, taint, fed, df, dbv, prevOp, ctxRemoved, drops>>

\* out = model.encode(sentence, normalize_embeddings = True)
StEncode ==
  /\ At("st_encode")
  /\ py.st # ""
  /\ taint[Cur.a.in] # {}
  /\ taint' = [taint EXCEPT ![Cur.a.out] = taint[Cur.a.in]]
  /\ fed' = fed \cup taint[Cur.a.in]
  /\ Advance({})
  /\ UNCHANGED <<files, py, df, dbv, prevOp, ctxRemoved, drops>>

\* print(... cos_sim(x[idx][0], y[idx][0])) for the ONNX results,
\* print(... cos_sim(x, y)) for the SentenceTransformer results
PrintCosSim ==
  /\ At("print_cos_sim")
  /\ taint[Cur.a.x] # {}
  /\ taint[Cur.a.y] # {}
  /\ IF Cur.a.onnx
     THEN /\ Cur.a.idx + 1 <= Len(py.outs)
          /\ py' = [py EXCEPT !.picked = py.outs[Cur.a.idx + 1]]
     ELSE py' = py
  /\ Advance({})
  /\ UNCHANGED <<files, taint, fed, df, dbv, prevOp, ctxRemoved, drops>>

\* Variant: the directory receives the tokenizer files of the hub model, not
\* the serialization of the tokenizer object.
SavePretrained_hub ==
  /\ At("save_pretrained")
  /\ py.tokenizer # NoTok
  /\ LET d == NormPath(Cur.a.dir)
         j == d \o "/tokenizer.json"
         hubtok == [cls |-> "hub", src |-> py.tokenizer.src]
     IN /\ files' = [p \in Paths |->
                       IF p = d THEN [kind |-> "dir", graph |-> NoGraph, tok |-> hubtok]
                       ELSE IF p = j
                       THEN [kind |-> "tokenizer", graph |-> NoGraph, tok |-> hubtok]
                       ELSE files[p]]
        /\ Advance({d, j})
  /\ UNCHANGED <<py, taint, fed, df, dbv, prevOp, ctxRemoved, drops>>

\* tokenizer.save_pretrained(dir): writes dir/tokenizer.json
SavePretrained ==
  /\ At("save_pretrained")
  /\ py.tokenizer # NoTok
  /\ LET d == NormPath(Cur.a.dir)
         j == d \o "/tokenizer.json"
     IN /\ files' = [p \in Paths |->
                       IF p = d THEN [kind |-> "dir", graph |-> NoGraph, tok |-> py.tokenizer]
                       ELSE IF p = j
                       THEN [kind |-> "tokenizer", graph |-> NoGraph, tok |-> py.tokenizer]
                       ELSE files[p]]
        /\ Advance({d, j})
  /\ UNCHANGED <<py, taint, fed, df, dbv, prevOp, ctxRemoved, drops>>

(***************************************************************************)
(* Database statements (teradataml).                                       *)
(***************************************************************************)
DbOps == {"db_drop_table", "save_byom", "dataframe", "head", "replace_view",
          "create_table", "from_query"}
OperatorOps == {"replace_view", "create_table", "from_query"}

\* The table or view an operator statement takes its rows from.
DataInput(s) ==
  IF s.op = "from_query" THEN df[s.a.sql.on].obj ELSE s.a.sql.on

\* "top n" of the view chain a statement reads from.
RECURSIVE ChainTop(_)
ChainTop(sql) ==
  IF sql.top > 0 THEN sql.top
  ELSE IF sql.on \in ViewNames /\ views[sql.on] > 0
       THEN ChainTop(Program(nb)[views[sql.on]].a.sql)
       ELSE 0

\* tdml.create_context(host, username, password)
CreateContext ==
  /\ At("create_context")
  /\ session' = TRUE
  /\ Advance({"session"})
  /\ UNCHANGED <<localv, byom, tables, views, prevOp, ctxRemoved, drops>>

\* tdml.remove_context()
RemoveContext ==
  /\ At("remove_context")
  /\ session' = FALSE
  /\ ctxRemoved' = TRUE
  /\ Advance({})
  /\ UNCHANGED <<localv, byom, tables, views, prevOp, drops>>

\* tdml.db_drop_table(table)
DbDropTable ==
  /\ At("db_drop_table")
  /\ session
  /\ TableExists(Cur.a.table)
  /\ IF Cur.a.table \in ByomTables
     THEN /\ byom' = [byom EXCEPT ![Cur.a.table] = [exists |-> FALSE, rows |-> <<>>]]
          /\ UNCHANGED tables
     ELSE /\ tables' = [tables EXCEPT ![Cur.a.table] =
                          [exists |-> FALSE, cols |-> Cols({}, "", 0), rows |-> {}]]
          /\ UNCHANGED byom
  /\ drops' = [drops EXCEPT !.n = drops.n + 1]
  /\ Advance({})
  /\ UNCHANGED <<localv, session, views, prevOp, ctxRemoved>>

\* Variant: save_byom adds a row even when the table holds the id already.
SaveByom_again ==
  /\ At("save_byom")
  /\ session
  /\ LET a == Cur.a
         f == files[NormPath(a.path)]
     IN /\ f.kind \in {"onnx", "tokenizer"}
        /\ byom' = [byom EXCEPT ![a.table] =
                      [exists |-> TRUE,
                       rows |-> Append(byom[a.table].rows,
                                       [model_id |-> a.id, blob |-> f, gen |-> run])]]
        /\ Advance({a.table})
  /\ UNCHANGED <<localv, session, tables, views, prevOp, ctxRemoved, drops>>

\* tdml.save_byom(id, path, table): creates the table when it is missing and
\* inserts the file under the id; an id the table already holds is refused.
SaveByom ==
  /\ At("save_byom")
  /\ session
  /\ LET a == Cur.a
         f == files[NormPath(a.path)]
     IN /\ f.kind \in {"onnx", "tokenizer"}
        /\ \A i \in 1..Len(byom[a.table].rows) : byom[a.table].rows[i].model_id # a.id
        /\ byom' = [byom EXCEPT ![a.table] =
                      [exists |-> TRUE,
                       rows |-> Append(byom[a.table].rows,
                                       [model_id |-> a.id, blob |-> f, gen |-> run])]]
        /\ Advance({a.table})
  /\ UNCHANGED <<localv, session, tables, views, prevOp, ctxRemoved, drops>>

\* tdml.DataFrame(obj), optionally bound to a name
DataFrame ==
  /\ At("dataframe")
  /\ session
  /\ ObjExists(Cur.a.obj)
  /\ IF Cur.a.out = ""
     THEN UNCHANGED <<df, taint>>
     ELSE /\ df' = [df EXCEPT ![Cur.a.out] = [obj |-> Cur.a.obj, all |-> TRUE,
                                              eq |-> TRUE, id |-> 0]]
          /\ taint' = [taint EXCEPT ![Cur.a.out] = {"db"}]
  /\ Advance({})
  /\ UNCHANGED <<files, py, fed, dbv, prevOp, ctxRemoved, drops>>

\* tdf.head(3)
DfHead ==
  /\ At("head")
  /\ session
  /\ df[Cur.a.in].obj # ""
  /\ ObjExists(df[Cur.a.in].obj)
  /\ Advance({})
  /\ UNCHANGED <<localv, dbv, prevOp, ctxRemoved, drops>>

\* tdf_out = tdf[tdf.id == 3] or tdf[tdf.id != 3]: a lazy selection
Filter ==
  /\ At("filter")
  /\ df[Cur.a.in].obj # ""
  /\ df' = [df EXCEPT ![Cur.a.out] = [obj |-> df[Cur.a.in].obj, all |-> FALSE,
                                      eq |-> Cur.a.eq, id |-> Cur.a.id]]
  /\ taint' = [taint EXCEPT ![Cur.a.out] = taint[Cur.a.in]]
  /\ Advance({})
  /\ UNCHANGED <<files, py, fed, dbv, prevOp, ctxRemoved, drops>>

\* tdml.execute_sql("replace view ... as (select ... from operator(...))")
ReplaceView ==
  /\ At("replace_view")
  /\ session
  /\ LET sql == Cur.a.sql
     IN /\ Apply(sql, Eval(sql.on, SourceRows)).static
        /\ views' = [views EXCEPT ![sql.name] = pc]
        /\ prevOp' = sql.name
        /\ Advance({sql.name})
  /\ UNCHANGED <<localv, session, byom, tables, ctxRemoved, drops>>

\* tdml.execute_sql("create table ... as (select ... from operator(...)) with data")
CreateTable ==
  /\ At("create_table")
  /\ session
  /\ LET sql == Cur.a.sql
     IN /\ ~tables[sql.name].exists
        /\ \E pick \in TopChoices(ChainTop(sql)) :
             LET rel == Apply(sql, Eval(sql.on, pick))
             IN /\ rel.dyn
                /\ tables' = [tables EXCEPT ![sql.name] =
                                [exists |-> TRUE, cols |-> rel.cols, rows |-> rel.rows]]
        /\ prevOp' = sql.name
        /\ Advance({sql.name})
  /\ UNCHANGED <<localv, session, byom, views, ctxRemoved, drops>>

\* tdml.DataFrame.from_query("SELECT ... FROM TD_VECTORDISTANCE(ON (tgt) ON (ref) ...)")
FromQuery ==
  /\ At("from_query")
  /\ session
  /\ LET sql == Cur.a.sql
     IN /\ df[sql.on].obj # ""
        /\ df[sql.ref].obj # ""
        /\ ObjExists(df[sql.on].obj)
        /\ ObjExists(df[sql.ref].obj)
        /\ ColsOK(sql, ColsOf(df[sql.on].obj))
        /\ ColsOK(sql, ColsOf(df[sql.ref].obj))
  /\ Advance({})
  /\ UNCHANGED <<localv, dbv, prevOp, ctxRemoved, drops>>

(***************************************************************************)
(* Failure and rerun.                                                      *)
(***************************************************************************)
\* Variant: a handler that removes the uploaded models when a statement raised.
AfterRaise_rollback(db) ==
  [byom |-> [t \in DOMAIN db.byom |-> [exists |-> FALSE, rows |-> <<>>]],
   tables |-> db.tables, views |-> db.views]

\* What the database holds after a statement raised: no cell catches an
\* exception or undoes what earlier statements did.
AfterRaise(db) == db

\* The statement control is at after a statement raised: none, the run stops.
StatusOnRaise == "aborted"

\* A statement raises: the interpreter abandons the cell and the run.
Raise ==
  /\ Active
  /\ Cur.op \notin {"export", "magic", "literal", "import"}
  /\ status' = StatusOnRaise
  /\ attempted' = attempted \cup {pc}
  /\ retried' = (retried \/ pc \in attempted)
  /\ drops' = IF Cur.op = "db_drop_table" /\ session /\ ~TableExists(Cur.a.table)
              THEN [drops EXCEPT !.missing = TRUE] ELSE drops
  /\ LET db == AfterRaise([byom |-> byom, tables |-> tables, views |-> views])
     IN /\ byom' = db.byom
        /\ tables' = db.tables
        /\ views' = db.views
  /\ UNCHANGED <<nb, pre, emails, total, run, pc, localv, session, produced, prevOp, ctxRemoved>>

\* The user restarts the kernel and runs the notebook again from the top:
\* the kernel's names and its database session are gone, files and the
\* database stay.
RerunRestart ==
  /\ status \in {"aborted", "done"}
  /\ run < MaxRuns
  /\ run' = run + 1
  /\ pc' = 1
  /\ status' = "running"
  /\ py' = PyInit
  /\ taint' = [v \in DataNames |-> {}]
  /\ fed' = {}
  /\ df' = [v \in DfNames |-> NoDf]
  /\ session' = FALSE
  /\ prevOp' = ""
  /\ ctxRemoved' = FALSE
  /\ drops' = NoDrops
  /\ attempted' = {}
  /\ produced' = [a \in Artifacts |-> [run |-> 0, cell |-> 0]]
  /\ UNCHANGED <<nb, pre, emails, total, files, byom, tables, views, retried>>

\* The user runs the notebook again from the top in the same kernel.
RerunSameKernel ==
  /\ status \in {"aborted", "done"}
  /\ run < MaxRuns
  /\ run' = run + 1
  /\ pc' = 1
  /\ status' = "running"
  /\ prevOp' = ""
  /\ ctxRemoved' = FALSE
  /\ drops' = NoDrops
  /\ attempted' = {}
  /\ produced' = [a \in Artifacts |-> [run |-> 0, cell |-> 0]]
  /\ UNCHANGED <<nb, pre, emails, total, localv, dbv, retried>>

Next ==
  \/ Comment
  \/ Import
  \/ Magic
  \/ Export
  \/ Opset
  \/ OnnxLoad
  \/ MakeModelStmt
  \/ FixDim
  \/ RemoveOutputLoop
  \/ OnnxSave
  \/ Literal
  \/ FromPretrained
  \/ InferenceSession
  \/ Tokenize
  \/ SessRun
  \/ Decode
  \/ StLoad
  \/ StEncode
  \/ PrintCosSim
  \/ SavePretrained
  \/ CreateContext
  \/ RemoveContext
  \/ DbDropTable
  \/ SaveByom
  \/ DataFrame
  \/ DfHead
  \/ Filter
  \/ ReplaceView
  \/ CreateTable
  \/ FromQuery
  \/ Raise
  \/ RerunRestart
  \/ RerunSameKernel

Spec == Init /\ [][Next]_vars

(***************************************************************************)
(* The fix cell of the Japanese notebook run on a model file with any      *)
(* list of graph outputs.                                                  *)
(***************************************************************************)
InitLoop ==
  /\ nb = "jp"
  /\ pre \in SUBSET TablesOf("jp")
  /\ emails \in EmailTables
  /\ total \in TableSizes
  /\ run = 1
  /\ pc = CHOOSE i \in 1..Len(JapaneseNotebook) : JapaneseNotebook[i].op = "onnx_load"
  /\ status = "running"
  /\ \E n \in 0..MaxOutputs : \E outs \in [1..n -> {"token_embeddings", "sentence_embedding",
                                               "last_hidden_state"}] :
       files = [p \in Paths |->
                  IF p = JpRaw
                  THEN [kind |-> "onnx",
                        graph |-> [ExportedGraph(JapaneseNotebook[1].a) EXCEPT !.outputs = outs],
                        tok |-> NoTok]
                  ELSE NoFile]
  /\ py = [PyInit EXCEPT !.op = JapaneseNotebook[1].a.opset]
  /\ taint = [v \in DataNames |-> {}]
  /\ fed = {}
  /\ df = [v \in DfNames |-> NoDf]
  /\ session = FALSE
  /\ byom = [t \in ByomTables |->
               IF t \in pre THEN [exists |-> TRUE, rows |-> <<OldRow("jp")>>]
               ELSE [exists |-> FALSE, rows |-> <<>>]]
  /\ tables = [t \in DataTables |->
                 IF t \in pre
                 THEN [exists |-> TRUE, cols |-> Cols({"id", "txt"}, "", 0),
                       rows |-> OldRows]
                 ELSE [exists |-> FALSE, cols |-> Cols({}, "", 0), rows |-> {}]]
  /\ views = [v \in ViewNames |-> 0]
  /\ produced = [a \in Artifacts |-> [run |-> 0, cell |-> 0]]
  /\ prevOp = ""
  /\ ctxRemoved = FALSE
  /\ drops = NoDrops
  /\ attempted = {}
  /\ retried = FALSE

NextLoop ==
  \/ OnnxLoad
  \/ MakeModelStmt
  \/ FixDim
  \/ RemoveOutputLoop
  \/ OnnxSave

SpecLoop == InitLoop /\ [][NextLoop]_vars

(***************************************************************************)
(* What a statement reads.                                                 *)
(***************************************************************************)
\* The artifacts (files, session, tables, views) a statement reads.
Reads(s) ==
  CASE s.op = "onnx_load" -> {NormPath(s.a.path)}
    [] s.op = "inference_session" -> {NormPath(s.a.path)}
    [] s.op = "from_pretrained" -> IF s.a.hub THEN {} ELSE {NormPath(s.a.src)}
    [] s.op = "save_byom" -> {"session", NormPath(s.a.path)}
    [] s.op = "db_drop_table" -> {"session"}
    [] s.op = "dataframe" -> {"session", s.a.obj}
    [] s.op = "head" -> {"session", df[s.a.in].obj}
    [] s.op \in {"replace_view", "create_table"} ->
         {"session", s.a.sql.on}
           \cup {s.a.sql.dims[i].table : i \in 1..Len(s.a.sql.dims)}
    [] s.op = "from_query" ->
         {"session", df[s.a.sql.on].obj, df[s.a.sql.ref].obj, s.a.sql.join}
    [] s.op = "remove_context" -> {"session"}
    [] OTHER -> {}

\* The artifact was written by an earlier cell of the current run.
ProducedEarlier(a, s) == produced[a].run = run /\ produced[a].cell < s.cell

(***************************************************************************)
(* Properties.                                                             *)
(***************************************************************************)

C2_RegisteredModelIsFixed ==
  \A t \in ByomTables : \A i \in 1..Len(byom[t].rows) :
    LET r == byom[t].rows[i]
    IN r.gen > 0 /\ r.blob.kind = "onnx" =>
         /\ r.blob.graph.by = "make_model"
         /\ r.blob.graph.ir = 8
         /\ \E k \in 1..Len(Program(nb)) :
              /\ Program(nb)[k].op = "opset"
              /\ Program(nb)[k].a.version = r.blob.graph.opset
         /\ \A d \in DimNames : r.blob.graph.dims[d] # 0
         /\ ~InSeq("token_embeddings", r.blob.graph.outputs)

\* C3: every database statement runs while the session opened by
\* create_context is open, a run that comes to its end has executed
\* remove_context as its last statement and left the session closed, and
\* after remove_context the run issues no database statement.
C3_SessionDiscipline ==
  /\ Active /\ Cur.op \in DbOps => session /\ ~ctxRemoved
  /\ status = "done" =>
       /\ ~session
       /\ ctxRemoved
       /\ Program(nb)[Len(Program(nb))].op = "remove_context"
       /\ ~Program(nb)[Len(Program(nb))].off
  /\ status = "running" /\ ctxRemoved => Cur.op \notin DbOps \cup {"create_context"}

\* C3 witness: the summarization notebook ran to its end, wrote its
\* result table in this run and closed the session.
C3_Witness ==
  /\ status = "done"
  /\ nb = "sum"
  /\ ~session
  /\ tables["emails_processed"].exists
  /\ produced["emails_processed"].run = run

\* C4: no run of a notebook as written executes a db_drop_table (every
\* drop being commented out), and a first run against a database that
\* holds none of the notebook's tables never attempts to drop a table
\* that is missing.
C4_NoDropExecuted ==
  /\ drops.n = 0
  /\ run = 1 /\ pre = {} => ~drops.missing

\* C5: a statement that raises ends the run at that statement: the rest of
\* the cell and of the notebook is not executed, no statement is attempted
\* twice in a run, and the files, tables, rows and views written before
\* the failure stay as they were.
C5_RaiseAbortsNoRetryNoRollback ==
  [][ /\ status = "running" /\ status' = "aborted" =>
           /\ pc' = pc
           /\ byom' = byom
           /\ tables' = tables
           /\ views' = views
           /\ files' = files
      /\ status = "aborted" /\ run' = run =>
           UNCHANGED <<pc, status, files, byom, tables, views>>
      /\ ~retried'
    ]_vars

\* C5 witness: in the deployment cell of the summarization notebook the
\* second upload raised, and the model uploaded by the first is in its table.
C5_Witness ==
  /\ status = "aborted"
  /\ nb = "sum"
  /\ Cur.op = "save_byom"
  /\ Cur.a.table = "summarization_tokenizers"
  /\ Len(byom["summarization_models"].rows) > 0
  /\ byom["summarization_models"].rows[Len(byom["summarization_models"].rows)].gen = run

\* C6: what the local models (tokenizer, ONNX session, SentenceTransformer)
\* are given derives from string literals of the notebook only, never from
\* rows fetched from the database.
C6_LocalModelsFedLiteralsOnly ==
  /\ fed \subseteq {"literal"}
  /\ Active /\ Cur.op \in {"tokenize", "sess_run", "decode", "st_encode"} =>
       "db" \notin (IF Cur.op = "tokenize" THEN TextOrigin(Cur.a.text) ELSE taint[Cur.a.in])

\* C6 witness: a run of the Japanese notebook came to its end having fed
\* the literals to the local models and having fetched rows of the store.
C6_Witness ==
  /\ status = "done"
  /\ nb = "jp"
  /\ fed = {"literal"}
  /\ taint["tdf_embeddings_store"] = {"db"}

\* C7: once the deployment cell of a run has completed, two distinct tables
\* hold, under the notebook's model id, the model and the tokenizer that
\* this run uploaded, and every operator statement that filters a model or
\* tokenizer table by model_id uses the id registered in that same table.
C7_SameIdInBothTables ==
  LET P == Program(nb)
      saves == {i \in 1..Len(P) : P[i].op = "save_byom" /\ ~P[i].off}
      Holds(t, id, kind) ==
        /\ byom[t].exists
        /\ \E k \in 1..Len(byom[t].rows) :
             /\ byom[t].rows[k].model_id = id
             /\ byom[t].rows[k].gen = run
             /\ byom[t].rows[k].blob.kind = kind
  IN /\ (\A i \in saves : i < pc) =>
          /\ \A i \in saves : P[i].a.id = ModelIdOf(nb)
          /\ \E i, j \in saves :
               /\ P[i].a.table # P[j].a.table
               /\ Holds(P[i].a.table, ModelIdOf(nb), "onnx")
               /\ Holds(P[j].a.table, ModelIdOf(nb), "tokenizer")
     /\ Active /\ Cur.op \in {"replace_view", "create_table"} =>
          \A k \in 1..Len(Cur.a.sql.dims) :
            Cur.a.sql.dims[k].filter # "" =>
              /\ \E i \in saves :
                   /\ P[i].a.table = Cur.a.sql.dims[k].table
                   /\ P[i].a.id = Cur.a.sql.dims[k].filter
              /\ \E r \in 1..Len(byom[Cur.a.sql.dims[k].table].rows) :
                   byom[Cur.a.sql.dims[k].table].rows[r].model_id = Cur.a.sql.dims[k].filter

\* C7 witness: the English embedding notebook is about to create its store,
\* filtering both tables by model_id, after its deployment cell uploaded
\* the model and the tokenizer in this run.
C7_Witness ==
  /\ Active
  /\ nb = "bge"
  /\ Cur.op = "create_table"
  /\ \E k \in 1..Len(byom["embeddings_models"].rows) :
       byom["embeddings_models"].rows[k].gen = run
  /\ \E k \in 1..Len(byom["embeddings_tokenizers"].rows) :
       byom["embeddings_tokenizers"].rows[k].gen = run

\* C8: each operator statement of a chain takes its rows from the view or
\* table that the operator statement before it created (the first one from
\* a source table), and every column it names exists in that input.
C8_ChainInputs ==
  Active /\ Cur.op \in OperatorOps =>
    /\ IF prevOp = "" THEN DataInput(Cur) \in SourceTables ELSE DataInput(Cur) = prevOp
    /\ ColsOK(Cur.a.sql, ColsOf(DataInput(Cur)))
    /\ Cur.op = "from_query" =>
         /\ df[Cur.a.sql.ref].obj = prevOp
         /\ ColsOK(Cur.a.sql, ColsOf(df[Cur.a.sql.ref].obj))

\* C8 witness: the summarization notebook is about to decode, as the third
\* operator of its chain, the view that the scoring statement created.
C8_Witness ==
  /\ Active
  /\ nb = "sum"
  /\ Cur.op = "create_table"
  /\ prevOp = "v_emails_encoded"
  /\ views["v_emails_tokenized"] > 0

\* C9: in a notebook that fixes the dimensions, the id vector and the
\* attention mask that the tokenizing view yields have, for every row, the
\* length 512 to which the registered model's sequence_length is fixed.
C9_EncodedLengthIsFixedLength ==
  \A v \in ViewNames :
    (views[v] > 0 /\ Program(nb)[views[v]].a.sql.fn = "tokenizer_encode") =>
      \A t \in ByomTables : \A i \in 1..Len(byom[t].rows) :
        LET m == byom[t].rows[i]
        IN m.gen > 0 /\ m.blob.kind = "onnx" =>
             /\ m.blob.graph.dims["sequence_length"] = 512
             /\ \A r \in Eval(v, SourceRows).rows :
                  /\ r.ids = m.blob.graph.dims["sequence_length"]
                  /\ r.mask = m.blob.graph.dims["sequence_length"]

\* C9 witness: the tokenizing view of the Japanese notebook yields a row
\* for a text shorter than 512 tokens while the fixed model is registered.
C9_Witness ==
  /\ nb = "jp"
  /\ views["v_emails_tokenized_for_embeddings_jp"] > 0
  /\ Len(byom["embeddings_models_jp"].rows) > 0
  /\ \E r \in Eval("v_emails_tokenized_for_embeddings_jp", SourceRows).rows :
       r.toks < 512 /\ r.ids = 512

C14_SearchResult ==
  \A i \in 1..Len(Program(nb)) :
    (Program(nb)[i].op = "from_query" /\ i < pc) =>
      LET sql == Program(nb)[i].a.sql
          store == tables[df[sql.ref].obj].rows
      IN \A res \in VectorDistance(sql, DfRows(df[sql.on]), DfRows(df[sql.ref])) :
           /\ Cardinality(res) <= 3
           /\ \A x \in res :
                /\ x.target_id = 3
                /\ x.reference_id # 3
                /\ \E r \in store : r.id = x.reference_id

\* C14 witness: the query of the Japanese notebook ran on a store with the
\* row of id 3 and four other rows, and one of its possible results has
\* three rows.
C14_Witness ==
  /\ nb = "jp"
  /\ status = "done"
  /\ Cardinality(tables["emails_embeddings_store_jp"].rows) = 5
  /\ \E res \in VectorDistance(sql_vectordistance_jp,
                               DfRows(df["tdf_embeddings_store_tgt"]),
                               DfRows(df["tdf_embeddings_store_ref"])) :
       Cardinality(res) = 3

\* C15: the create-table statement of emails_processed and of
\* emails_embeddings_store fails when its table exists, and no step of a
\* run changes or removes one of these tables once it exists: a later run
\* of the cell does not replace what an earlier one created.
C15_CreateTableKeepsExisting ==
  [][ \A t \in {"emails_processed", "emails_embeddings_store"} :
        tables[t].exists =>
          /\ tables'[t] = tables[t]
          /\ (Active /\ Cur.op = "create_table" /\ Cur.a.sql.name = t) =>
               status' = "aborted" /\ pc' = pc
    ]_vars

\* C15 witness: in its second run the BGE notebook failed at the
\* create-table statement, and the store holds the rows of the first run.
C15_Witness ==
  /\ nb = "bge"
  /\ run = 2
  /\ status = "aborted"
  /\ Cur.op = "create_table"
  /\ tables["emails_embeddings_store"].exists
  /\ \A r \in tables["emails_embeddings_store"].rows : r.gen = 1 /\ r.embn = 384

\* C16: the index with which the comparison reads the ONNX session result
\* selects the sentence_embedding output: index 0 in the Japanese notebook,
\* whose session runs the model without token_embeddings, and index 1 in
\* the BGE notebook, whose session runs the export with the outputs
\* (token_embeddings, sentence_embedding).
C16_IndexSelectsSentenceEmbedding ==
  /\ (Active /\ Cur.op = "print_cos_sim" /\ Cur.a.onnx) =>
       /\ Cur.a.idx + 1 <= Len(py.outs)
       /\ py.outs[Cur.a.idx + 1] = "sentence_embedding"
       /\ nb = "jp" =>
            /\ Cur.a.idx = 0
            /\ py.predef_sess.by = "make_model"
            /\ py.outs = <<"sentence_embedding">>
       /\ nb = "bge" =>
            /\ Cur.a.idx = 1
            /\ py.predef_sess.by = "export"
            /\ py.outs = <<"token_embeddings", "sentence_embedding">>
  /\ py.picked \in {"", "sentence_embedding"}

\* C16 witness: the BGE notebook has printed the similarity of the ONNX
\* embeddings, read at index 1 of a result with two outputs.
C16_Witness ==
  /\ nb = "bge"
  /\ status = "running"
  /\ py.picked = "sentence_embedding"
  /\ Len(py.outs) = 2
  /\ Cur.op = "print_cos_sim"
  /\ ~Cur.a.onnx

C18_TargetRowInStore ==
  (/\ nb = "jp"
   /\ \E r \in SourceRows : r.id = 3) =>
    /\ (/\ tables["emails_embeddings_store_jp"].exists
        /\ \E r \in tables["emails_embeddings_store_jp"].rows : r.gen > 0) =>
         \E r \in tables["emails_embeddings_store_jp"].rows : r.id = 3
    /\ (Active /\ Cur.op = "from_query") => DfRows(df[Cur.a.sql.on]) # {}

\* C19: when a tokenizing, scoring or detokenizing statement is about to
\* run, each model or tokenizer table it passes as DIMENSION input yields
\* exactly one row, the one this run registered under the notebook's id;
\* the summarization notebook passes its two tables whole, without a
\* model_id filter, and they hold that one row only.
C19_DimensionIsOneRow ==
  (Active /\ Cur.op \in {"replace_view", "create_table"}) =>
    \A k \in 1..Len(Cur.a.sql.dims) :
      LET d == Cur.a.sql.dims[k]
      IN /\ Len(DimRows(d)) = 1
         /\ DimRows(d)[1].model_id = ModelIdOf(nb)
         /\ DimRows(d)[1].gen = run
         /\ nb = "sum" => d.filter = "" /\ Len(byom[d.table].rows) = 1

\* C19 witness: the summarization notebook is about to detokenize, passing
\* summarization_tokenizers whole, and the table holds one row.
C19_Witness ==
  /\ Active
  /\ nb = "sum"
  /\ Cur.op = "create_table"
  /\ Len(Cur.a.sql.dims) = 1
  /\ Cur.a.sql.dims[1].filter = ""
  /\ Len(byom["summarization_tokenizers"].rows) = 1

\* The tokenizer definitions that this run registered in the database.
RegisteredTokenizers ==
  UNION {{byom[t].rows[i].blob.tok :
            i \in {k \in 1..Len(byom[t].rows) :
                     /\ byom[t].rows[k].gen = run
                     /\ byom[t].rows[k].blob.kind = "tokenizer"}} :
         t \in {u \in ByomTables : byom[u].exists}}

\* The token data type of the in-database detokenization is the one of the
\* tokenizing view it reads through (INT32 in the summarization notebook).
DecodeTypeIsEncodeType ==
  (Active /\ Cur.op = "create_table" /\ Cur.a.sql.fn = "tokenizer_decode") =>
    /\ views["v_emails_tokenized"] > 0
    /\ Program(nb)[views["v_emails_tokenized"]].a.sql.dtype = Cur.a.sql.dtype
    /\ Cur.a.sql.dtype = "INT32"

\* C20 as stated: the tokenizer definition registered in the database is
\* the serialization of the tokenizer that the local test of the ONNX model
\* used, and the detokenization has the token data type of the tokenization.
C20_RegisteredTokenizerIsTested ==
  /\ \A k \in RegisteredTokenizers : k = py.tested
  /\ DecodeTypeIsEncodeType

\* C20 amended: the registered tokenizer definition is a tokenizer of the hub
\* model whose tokenizer the local test used; in the summarization and BGE
\* notebooks it is the tested tokenizer itself, in the Japanese notebook it
\* is the serialization of a BertTokenizerFast built after the test from the
\* export directory, not of the tested tokenizer; the detokenization has the
\* token data type of the tokenization.
C20_RegisteredTokenizerOfTestedModel ==
  /\ \A k \in RegisteredTokenizers :
       /\ k.src = py.tested.src
       /\ nb \in {"sum", "bge"} => k = py.tested
       /\ nb = "sum" => k = py.tokenizer /\ k.cls = "T5TokenizerFast"
       /\ nb = "jp" => /\ k = py.tokenizer
                       /\ k.cls = "BertTokenizerFast"
                       /\ k # py.tested
  /\ DecodeTypeIsEncodeType

\* C20 witness: the Japanese notebook has registered its tokenizer in this
\* run, after the local test used another one.
C20_Witness ==
  /\ nb = "jp"
  /\ RegisteredTokenizers # {}
  /\ py.tested # NoTok
  /\ py.tested \notin RegisteredTokenizers

\* How the database summarizes once emails_processed is built: the
\* generation parameters that v_emails_tokenized hands to the model, the
\* special-token handling of the detokenization, and the max_length
\* dimension of the registered model.
InDbSummarization ==
  LET P == Program(nb)
      d == CHOOSE i \in 1..Len(P) : P[i].op = "create_table"
  IN [gen |-> P[views["v_emails_tokenized"]].a.sql.params,
      skip |-> P[d].a.sql.skipspecial,
      maxdim |-> DimGraph(P[views["v_emails_encoded"]].a.sql).dims["max_length"]]

\* C21 as stated: once this run has summarized the emails in the database,
\* the generation parameters and the special-token handling are those of
\* the local ONNX test, and max_length is within the model's fixed dimension.
C21_SameGenerationAsLocalTest ==
  (/\ nb = "sum"
   /\ tables["emails_processed"].exists
   /\ \E r \in tables["emails_processed"].rows : r.gen = run) =>
    /\ InDbSummarization.gen = py.gen
    /\ InDbSummarization.skip = py.skip
    /\ InDbSummarization.gen.max_length <= InDbSummarization.maxdim

\* C21 amended: once this run has summarized the emails in the database,
\* min_length (10), num_beams (4) and num_return_sequences (1) are those of
\* the local ONNX test; max_length is 50 against 100 in the test,
\* repetition_penalty 1 against 2, length_penalty 2 against 0, and the
\* detokenization keeps the special tokens that the local decode skips;
\* max_length is within the model's fixed dimension of 100.
C21_GenerationDiffersFromLocalTest ==
  (/\ nb = "sum"
   /\ tables["emails_processed"].exists
   /\ \E r \in tables["emails_processed"].rows : r.gen = run) =>
    LET p == InDbSummarization.gen
        q == py.gen
    IN /\ p.min_length = q.min_length /\ p.min_length = 10
       /\ p.num_beams = q.num_beams /\ p.num_beams = 4
       /\ p.num_return_sequences = q.num_return_sequences
       /\ p.num_return_sequences = 1
       /\ p.max_length = 50 /\ q.max_length = 100
       /\ p.repetition_penalty = 1 /\ q.repetition_penalty = 2
       /\ p.length_penalty = 2 /\ q.length_penalty = 0
       /\ ~InDbSummarization.skip /\ py.skip
       /\ InDbSummarization.maxdim = 100
       /\ p.max_length <= InDbSummarization.maxdim

\* C21 witness: this run has summarized the emails in the database after the
\* local test ran with other parameters.
C21_Witness ==
  /\ nb = "sum"
  /\ tables["emails_processed"].exists
  /\ \E r \in tables["emails_processed"].rows : r.gen = run
  /\ py.gen.max_length > 0
  /\ py.gen # InDbSummarization.gen

====
